---- MODULE Spec2Model ----
(***************************************************************************)
(* The /inference request handler of whisper_server_fast.py and            *)
(* whisper_server_simple.py as a state machine: one request, from input    *)
(* validation through the temporary file, the backend call, the word       *)
(* extraction loop, the fallback synthesizer and the response.             *)
(*                                                                         *)
(* Strings are sequences of characters over {"a", "b", " "}; " " stands    *)
(* for whitespace.  Backend times are in milliseconds and backend          *)
(* probabilities in 1/10000; round(x, 2) yields hundredths of a second and *)
(* round(x, 3) yields thousandths, so the response carries start/end in    *)
(* centiseconds and probability in thousandths.                            *)
(***************************************************************************)
EXTENDS Integers, Sequences, FiniteSets, TLC

VARIABLES server, has_file, filename, pc, tmp_exists, files_created,
          backend_calls, segments_list, result_text, idx, words_data,
          full_text_parts, full_text, fallback_ran, response

vars == <<server, has_file, filename, pc, tmp_exists, files_created,
          backend_calls, segments_list, result_text, idx, words_data,
          full_text_parts, full_text, fallback_ran, response>>

\* ---------------------------------------------------------------- bounds
MaxSegs == 2
MaxSpans == 3

\* ------------------------------------------------------------- strings
WS == " "
EmptyStr == <<>>

RECURSIVE LStrip(_)
LStrip(s) == IF s # <<>> /\ Head(s) = WS THEN LStrip(Tail(s)) ELSE s

RECURSIVE RStrip(_)
RStrip(s) ==
    IF s # <<>> /\ s[Len(s)] = WS THEN RStrip(SubSeq(s, 1, Len(s) - 1)) ELSE s

\* str.strip()
Strip(s) == RStrip(LStrip(s))

\* the first whitespace-free run of a string that starts with a non-blank
RECURSIVE TakeToken(_)
TakeToken(s) ==
    IF s = <<>> \/ Head(s) = WS THEN <<>> ELSE <<Head(s)>> \o TakeToken(Tail(s))

\* str.split() with no argument: runs of non-whitespace, never an empty token
RECURSIVE Split(_)
Split(s) ==
    LET t == LStrip(s)
        tok == TakeToken(t)
    IN IF t = <<>> THEN <<>>
       ELSE <<tok>> \o Split(SubSeq(t, Len(tok) + 1, Len(t)))

\* " ".join(parts)
RECURSIVE Join(_)
Join(parts) ==
    IF parts = <<>> THEN <<>>
    ELSE IF Len(parts) = 1 THEN parts[1]
    ELSE parts[1] \o <<WS>> \o Join(Tail(parts))

\* ------------------------------------------------------------ rounding
\* round(x, 2) of a time given in milliseconds, in centiseconds: the nearest
\* hundredth.  A float is never exactly half-way between two hundredths at
\* this resolution, so the backend values below avoid a last digit of 5,
\* where the direction depends on the binary representation.
Round2(ms) == (ms + 5) \div 10
\* round(x, 3) of a probability given in 1/10000, in thousandths
Round3(p) == (p + 5) \div 10

\* ------------------------------------------------------- backend output
\* word spans the backend may hand out; ok = FALSE is a span whose fields
\* cannot be read (word_info.word.strip() raises)
OkA == [ok |-> TRUE, word |-> <<" ", "a">>, start |-> 0, end |-> 404,
        probability |-> 9104]
OkB == [ok |-> TRUE, word |-> <<"b">>, start |-> 404, end |-> 698,
        probability |-> 8796]
Blank == [ok |-> TRUE, word |-> <<" ">>, start |-> 698, end |-> 702,
          probability |-> 5001]
Bad == [ok |-> FALSE, word |-> <<>>, start |-> 0, end |-> 0,
        probability |-> 0]
SpanSet == {OkA, OkB, Blank, Bad}

\* segment texts: whitespace only (empty once trimmed), and two tokens behind
\* leading whitespace
Texts == {<<" ">>, <<" ", "a", " ", "b">>}

\* sequences of exactly k spans
RECURSIVE SpanSeqs(_)
SpanSeqs(k) ==
    IF k = 0 THEN {<<>>}
    ELSE {<<s>> \o r : s \in SpanSet, r \in SpanSeqs(k - 1)}

\* segments carrying exactly k spans; without spans the words attribute is
\* missing, None, not iterable, or an empty list
SegsWith(k) ==
    IF k = 0
    THEN {[text |-> t, wkind |-> w, words |-> <<>>] :
             t \in Texts, w \in {"absent", "none", "noniter", "list"}}
    ELSE {[text |-> t, wkind |-> "list", words |-> ws] :
             t \in Texts, ws \in SpanSeqs(k)}

\* the number of spans in a segment sequence
RECURSIVE SpanCount(_)
SpanCount(segs) ==
    IF segs = <<>> THEN 0 ELSE Len(Head(segs).words) + SpanCount(Tail(segs))

\* the segments the backend may yield next: at most MaxSegs segments and at
\* most MaxSpans spans in one result
NextSegments(segs) ==
    IF Len(segs) >= MaxSegs THEN {}
    ELSE UNION {SegsWith(k) : k \in 0..(MaxSpans - SpanCount(segs))}

\* ------------------------------------------------------ word extraction
\* the response entry built from one backend span
WordData(span) ==
    [word |-> Strip(span.word), start |-> Round2(span.start),
     end |-> Round2(span.end), probability |-> Round3(span.probability)]

\* the blank-word check left out
AcceptAnyWord(word_text) == TRUE

\* "if word_text:" -- blank words are skipped
AcceptWord(word_text) == word_text # EmptyStr

\* insert at the front instead of append
PrependWord(wd, w) == <<w>> \o wd

\* words_data.append(word_data)
AppendWord(wd, w) == Append(wd, w)

\* the loop over words_list inside the try block: acc holds words_data and
\* full_text_parts; an unreadable span raises, and the except clause appends
\* the segment text to what the loop had appended so far
RECURSIVE WalkWords(_, _, _)
WalkWords(ws, acc, segment_text) ==
    IF ws = <<>> THEN acc
    ELSE IF ~Head(ws).ok
    THEN [words |-> acc.words, parts |-> Append(acc.parts, segment_text)]
    ELSE LET word_text == Strip(Head(ws).word)
         IN IF AcceptWord(word_text)
            THEN WalkWords(Tail(ws),
                           [words |-> AppendWord(acc.words, WordData(Head(ws))),
                            parts |-> Append(acc.parts, word_text)],
                           segment_text)
            ELSE WalkWords(Tail(ws), acc, segment_text)

\* one iteration of "for segment in segments_list"
ExtractSegment(seg, acc) ==
    LET segment_text == Strip(seg.text)
    IN IF seg.wkind \notin {"absent", "none"}
       THEN IF seg.wkind = "noniter"
            THEN [words |-> acc.words, parts |-> Append(acc.parts, segment_text)]
            ELSE IF seg.words # <<>>
            THEN WalkWords(seg.words, acc, segment_text)
            ELSE [words |-> acc.words, parts |-> Append(acc.parts, segment_text)]
       ELSE IF segment_text # EmptyStr
            THEN [words |-> acc.words, parts |-> Append(acc.parts, segment_text)]
            ELSE acc

\* ------------------------------------------------- fallback synthesizer
EstimatedDuration == 500
FallbackProbability == 750

\* the fallback condition without "not words_data"
FallbackIfText(wd, ft) == ft # EmptyStr

\* "if not words_data and full_text:"
FallbackCondition(wd, ft) == wd = <<>> /\ ft # EmptyStr

\* the slot counted from one instead of zero
FallbackWordOneBased(tok, i) ==
    [word |-> Strip(tok), start |-> Round2((i + 1) * EstimatedDuration),
     end |-> Round2((i + 2) * EstimatedDuration),
     probability |-> FallbackProbability]

\* the entry synthesized for token number i (zero-based)
FallbackWord(tok, i) ==
    [word |-> Strip(tok), start |-> Round2(i * EstimatedDuration),
     end |-> Round2((i + 1) * EstimatedDuration),
     probability |-> FallbackProbability]

\* "for i, word in enumerate(words): if word.strip(): words_data.append(...)"
RECURSIVE FallbackFrom(_, _, _)
FallbackFrom(toks, i, wd) ==
    IF i >= Len(toks) THEN wd
    ELSE FallbackFrom(toks, i + 1,
                      IF Strip(toks[i + 1]) # EmptyStr
                      THEN Append(wd, FallbackWord(toks[i + 1], i))
                      ELSE wd)

FallbackWords(ft) == FallbackFrom(Split(ft), 0, <<>>)

\* ---------------------------------------------------- response assembler
\* words_data[0] instead of words_data[-1]
FirstWordEnd(wd) == IF wd # <<>> THEN wd[1].end ELSE 0

TotalDuration(wd) == IF wd # <<>> THEN wd[Len(wd)].end ELSE 0

NoResponse == [status |-> 0]
ErrorResponse(code, msg) == [status |-> code, error |-> msg]
FastResponse(ft, wd) ==
    [status |-> 200, text |-> ft, words |-> wd,
     total_duration |-> TotalDuration(wd)]
SimpleResponse(t) == [status |-> 200, text |-> t]

\* -------------------------------------------------------- request layer
\* "'file' not in request.files" negated
FileProvided(hf) == hf
\* the filename check left out
AnyFilename(fn) == TRUE

\* "audio_file.filename == ''" negated
FileSelected(fn) == fn # ""

\* "if os.path.exists(tmp_path): os.unlink(tmp_path)"
CleanupOnError(exists) == IF exists THEN FALSE ELSE exists

Servers == {"fast", "simple"}
Filenames == {"", "clip.flac"}

Init ==
    /\ server \in Servers
    /\ has_file \in BOOLEAN
    /\ filename \in Filenames
    /\ (~has_file => filename = "")
    /\ pc = "start"
    /\ tmp_exists = FALSE
    /\ files_created = 0
    /\ backend_calls = 0
    /\ segments_list = <<>>
    /\ result_text = EmptyStr
    /\ idx = 0
    /\ words_data = <<>>
    /\ full_text_parts = <<>>
    /\ full_text = EmptyStr
    /\ fallback_ran = FALSE
    /\ response = NoResponse

\* the outer "except Exception" of the handler: a 500 with an error field
Fail500 ==
    /\ pc' = "done"
    /\ response' = ErrorResponse(500, "exception")

\* input validation
Validate ==
    /\ pc = "start"
    /\ IF ~FileProvided(has_file)
       THEN /\ pc' = "done"
            /\ response' = ErrorResponse(400, "No file provided")
       ELSE IF ~FileSelected(filename)
       THEN /\ pc' = "done"
            /\ response' = ErrorResponse(400, "No file selected")
       ELSE /\ pc' = "save"
            /\ UNCHANGED response
    /\ UNCHANGED <<server, has_file, filename, tmp_exists, files_created,
                   backend_calls, segments_list, result_text, idx, words_data,
                   full_text_parts, full_text, fallback_ran>>

\* tempfile.NamedTemporaryFile(delete=False) itself raises: no file appears
TempFileFails ==
    /\ pc = "save"
    /\ Fail500
    /\ UNCHANGED <<server, has_file, filename, tmp_exists, files_created,
                   backend_calls, segments_list, result_text, idx, words_data,
                   full_text_parts, full_text, fallback_ran>>

\* the with block: the file is created and the upload saved into it
SaveUpload ==
    /\ pc = "save"
    /\ tmp_exists' = TRUE
    /\ files_created' = files_created + 1
    /\ pc' = "transcribe"
    /\ UNCHANGED <<server, has_file, filename, backend_calls, segments_list,
                   result_text, idx, words_data, full_text_parts, full_text,
                   fallback_ran, response>>

\* audio_file.save raises inside the with block: delete=False keeps the file,
\* and the inner try with its cleanup has not been entered
SaveUploadFails ==
    /\ pc = "save"
    /\ tmp_exists' = TRUE
    /\ files_created' = files_created + 1
    /\ Fail500
    /\ UNCHANGED <<server, has_file, filename, backend_calls, segments_list,
                   result_text, idx, words_data, full_text_parts, full_text,
                   fallback_ran>>

\* model.transcribe returns: the fast server gets a segment generator, the
\* simple server a result with a text
BackendTranscribe ==
    /\ pc = "transcribe"
    /\ backend_calls' = backend_calls + 1
    /\ IF server = "fast"
       THEN /\ pc' = "listing"
            /\ UNCHANGED result_text
       ELSE /\ \E t \in Texts : result_text' = t
            /\ pc' = "finish"
    /\ UNCHANGED <<server, has_file, filename, tmp_exists, files_created,
                   segments_list, idx, words_data, full_text_parts, full_text,
                   fallback_ran, response>>

\* list(segments): the generator yields one more segment
BackendYield ==
    /\ pc = "listing"
    /\ \E seg \in NextSegments(segments_list) :
          segments_list' = Append(segments_list, seg)
    /\ UNCHANGED <<server, has_file, filename, pc, tmp_exists, files_created,
                   backend_calls, result_text, idx, words_data,
                   full_text_parts, full_text, fallback_ran, response>>

\* list(segments): the generator is exhausted, the loop starts
ListSegments ==
    /\ pc = "listing"
    /\ idx' = 1
    /\ pc' = "loop"
    /\ UNCHANGED <<server, has_file, filename, tmp_exists, files_created,
                   backend_calls, segments_list, result_text, words_data,
                   full_text_parts, full_text, fallback_ran, response>>

\* model.transcribe raises: the inner except removes the file and re-raises
BackendRaises ==
    /\ pc = "transcribe"
    /\ backend_calls' = backend_calls + 1
    /\ tmp_exists' = CleanupOnError(tmp_exists)
    /\ Fail500
    /\ UNCHANGED <<server, has_file, filename, files_created, segments_list,
                   result_text, idx, words_data, full_text_parts, full_text,
                   fallback_ran>>

\* one iteration of the segment loop of the fast server
ProcessSegment ==
    /\ pc = "loop"
    /\ idx <= Len(segments_list)
    /\ LET r == ExtractSegment(segments_list[idx],
                               [words |-> words_data, parts |-> full_text_parts])
       IN /\ words_data' = r.words
          /\ full_text_parts' = r.parts
    /\ idx' = idx + 1
    /\ UNCHANGED <<server, has_file, filename, pc, tmp_exists, files_created,
                   backend_calls, segments_list, result_text, full_text,
                   fallback_ran, response>>

\* after the loop: join the text, run the fallback, remove the file
FinishFast ==
    /\ pc = "loop"
    /\ idx > Len(segments_list)
    /\ LET ft == Join(full_text_parts)
       IN /\ full_text' = ft
          /\ IF FallbackCondition(words_data, ft)
             THEN /\ words_data' = FallbackWords(ft)
                  /\ fallback_ran' = TRUE
             ELSE UNCHANGED <<words_data, fallback_ran>>
    /\ tmp_exists' = FALSE
    /\ pc' = "respond"
    /\ UNCHANGED <<server, has_file, filename, files_created, backend_calls,
                   segments_list, result_text, idx, full_text_parts, response>>

\* the simple server: strip the text, remove the file
FinishSimple ==
    /\ pc = "finish"
    /\ full_text' = Strip(result_text)
    /\ tmp_exists' = FALSE
    /\ pc' = "respond"
    /\ UNCHANGED <<server, has_file, filename, files_created, backend_calls,
                   segments_list, result_text, idx, words_data,
                   full_text_parts, fallback_ran, response>>

\* an exception between the backend call and os.unlink that no inner handler
\* absorbs (the segment generator raises, segment.text or result["text"]
\* cannot be read): the inner except removes the file and re-raises
NormalizeRaises ==
    /\ \/ pc = "listing"
       \/ pc = "loop" /\ idx <= Len(segments_list)
       \/ pc = "finish"
    /\ tmp_exists' = CleanupOnError(tmp_exists)
    /\ Fail500
    /\ UNCHANGED <<server, has_file, filename, files_created, backend_calls,
                   segments_list, result_text, idx, words_data,
                   full_text_parts, full_text, fallback_ran>>

\* return jsonify(...)
Respond ==
    /\ pc = "respond"
    /\ response' = IF server = "fast"
                   THEN FastResponse(full_text, words_data)
                   ELSE SimpleResponse(full_text)
    /\ pc' = "done"
    /\ UNCHANGED <<server, has_file, filename, tmp_exists, files_created,
                   backend_calls, segments_list, result_text, idx, words_data,
                   full_text_parts, full_text, fallback_ran>>

\* jsonify raises after the file was removed: the inner except finds no file
RespondRaises ==
    /\ pc = "respond"
    /\ tmp_exists' = CleanupOnError(tmp_exists)
    /\ Fail500
    /\ UNCHANGED <<server, has_file, filename, files_created, backend_calls,
                   segments_list, result_text, idx, words_data,
                   full_text_parts, full_text, fallback_ran>>

Next ==
    \/ Validate
    \/ TempFileFails
    \/ SaveUpload
    \/ SaveUploadFails
    \/ BackendTranscribe
    \/ BackendYield
    \/ ListSegments
    \/ BackendRaises
    \/ ProcessSegment
    \/ FinishFast
    \/ FinishSimple
    \/ NormalizeRaises
    \/ Respond
    \/ RespondRaises

Spec == Init /\ [][Next]_vars

\* ---------------------------------------------------------------- claims
\* a successful response of the fast server has been returned
Success == pc = "done" /\ server = "fast" /\ response.status = 200

\* the backend spans in segment order, then word order inside the segment
RECURSIVE FlatSpans(_)
FlatSpans(segs) ==
    IF segs = <<>> THEN <<>> ELSE Head(segs).words \o FlatSpans(Tail(segs))

IsReadable(sp) == sp.ok
IsBlank(sp) == sp.ok /\ Strip(sp.word) = EmptyStr

\* the entries the readable backend spans would give, in backend order
RECURSIVE Entries(_)
Entries(spans) ==
    IF spans = <<>> THEN <<>>
    ELSE IF IsReadable(Head(spans))
    THEN <<WordData(Head(spans))>> \o Entries(Tail(spans))
    ELSE Entries(Tail(spans))

\* a is b with some elements left out
RECURSIVE IsSubsequence(_, _)
IsSubsequence(a, b) ==
    IF a = <<>> THEN TRUE
    ELSE IF b = <<>> THEN FALSE
    ELSE IF Head(a) = Head(b) THEN IsSubsequence(Tail(a), Tail(b))
    ELSE IsSubsequence(a, Tail(b))

\* the segment hands the extractor a non-blank span before any unreadable one
SegmentAccepted(seg) ==
    /\ seg.wkind = "list"
    /\ \E j \in 1..Len(seg.words) :
          /\ \A k \in 1..j : IsReadable(seg.words[k])
          /\ ~IsBlank(seg.words[j])

AnyAccepted(segs) == \E i \in 1..Len(segs) : SegmentAccepted(segs[i])

\* C1: the words of a successful response have non-empty trimmed text, and
\* the entries taken from backend spans keep the order of those spans
\* (segment order, then word order inside the segment).
C1_NonEmptyInOrder ==
    Success =>
       /\ \A i \in 1..Len(response.words) :
             Strip(response.words[i].word) # EmptyStr
       /\ ~fallback_ran =>
             IsSubsequence(response.words, Entries(FlatSpans(segments_list)))

C1_Witness ==
    /\ Success
    /\ ~fallback_ran
    /\ Len(response.words) >= 2
    /\ \E i \in 1..Len(segments_list) :
          \E j \in 1..Len(segments_list[i].words) :
             IsBlank(segments_list[i].words[j])

\* C2: the fallback synthesizer runs exactly when, after all segments, no
\* word was accepted and the full text is non-empty; once the extractor has
\* accepted a backend word, every entry of words is a backend entry.
C2_FallbackExactly ==
    (pc \in {"respond", "done"} /\ server = "fast") =>
       /\ fallback_ran <=>
             (~AnyAccepted(segments_list) /\ full_text # EmptyStr)
       /\ AnyAccepted(segments_list) =>
             \A i \in 1..Len(words_data) :
                \E j \in 1..Len(FlatSpans(segments_list)) :
                   /\ IsReadable(FlatSpans(segments_list)[j])
                   /\ words_data[i] = WordData(FlatSpans(segments_list)[j])

C2_Witness ==
    /\ Success
    /\ AnyAccepted(segments_list)
    /\ ~fallback_ran
    /\ \E i \in 1..Len(segments_list) :
          /\ segments_list[i].wkind = "none"
          /\ Strip(segments_list[i].text) # EmptyStr

\* the segment has no usable word sequence
NoWordSequence(seg) ==
    \/ seg.wkind \in {"absent", "none", "noniter"}
    \/ seg.wkind = "list" /\ seg.words = <<>>

\* C3: when every segment has no usable word sequence but non-empty text,
\* words has one entry per whitespace-separated token of the text, in token
\* order, entry i (zero-based) running from 0.5*i to 0.5*(i+1) with
\* probability 0.75: starts strictly increase and each start is the
\* previous end.
C3_FallbackSlots ==
    (Success /\ \A k \in 1..Len(segments_list) :
                   /\ NoWordSequence(segments_list[k])
                   /\ segments_list[k].text # EmptyStr) =>
       LET toks == Split(response.text)
           w == response.words
       IN /\ Len(w) = Len(toks)
          /\ \A i \in 1..Len(w) :
                /\ w[i].word = toks[i]
                /\ w[i].start = 50 * (i - 1)
                /\ w[i].end = 50 * i
                /\ w[i].probability = 750
          /\ \A i \in 1..(Len(w) - 1) :
                /\ w[i].start < w[i + 1].start
                /\ w[i + 1].start = w[i].end

C3_Witness ==
    /\ Success
    /\ Len(segments_list) = 2
    /\ \A k \in 1..Len(segments_list) :
          /\ NoWordSequence(segments_list[k])
          /\ segments_list[k].text # EmptyStr
    /\ Len(response.words) >= 3
    /\ fallback_ran

\* C4: total_duration is the end of the last entry of words, and 0.0 when
\* words is empty.
C4_TotalDuration ==
    Success =>
       response.total_duration =
          IF response.words # <<>>
          THEN response.words[Len(response.words)].end
          ELSE 0

C4_Witness ==
    /\ Success
    /\ ~fallback_ran
    /\ Len(response.words) >= 2
    /\ response.total_duration > 0

\* C5: with zero segments, or when every segment has empty trimmed text and
\* no accepted word, the response is a success with empty text, no words and
\* total_duration 0.0.
C5_EmptyResult ==
    (Success /\ \A k \in 1..Len(segments_list) :
                   /\ Strip(segments_list[k].text) = EmptyStr
                   /\ ~SegmentAccepted(segments_list[k])) =>
       /\ response.text = EmptyStr
       /\ response.words = <<>>
       /\ response.total_duration = 0

\* C6: once a request that passed validation has been answered, the
\* temporary file of the upload no longer exists.
C6_TempFileGone ==
    (pc = "done" /\ response.status # 400) => ~tmp_exists

\* C7: without a file part, or with an empty filename, the request is
\* answered 400 with an error field and no transcription; no temporary file
\* is created and the backend is never called.
C7_RejectedBeforeCore ==
    (~has_file \/ filename = "") =>
       /\ files_created = 0
       /\ backend_calls = 0
       /\ ~tmp_exists
       /\ pc \in {"start", "done"}
       /\ pc = "done" =>
             /\ response.status = 400
             /\ "error" \in DOMAIN response
             /\ "text" \notin DOMAIN response

C7_Witness ==
    /\ pc = "done"
    /\ has_file
    /\ filename = ""
    /\ response.status = 400

\* the starts of consecutive entries never decrease
Ordered(w) == \A i \in 1..(Len(w) - 1) : w[i + 1].start >= w[i].start

\* the readable, non-blank backend spans never decrease in start, in segment
\* order, then word order
BackendOrdered(segs) ==
    LET f == FlatSpans(segs)
    IN \A i, j \in 1..Len(f) :
          (i < j /\ IsReadable(f[i]) /\ ~IsBlank(f[i])
                 /\ IsReadable(f[j]) /\ ~IsBlank(f[j])) =>
             f[i].start <= f[j].start

\* C8 as stated: in every successful response the starts of consecutive
\* entries of words never decrease.
C8_AlwaysOrdered == Success => Ordered(response.words)

\* C8 amended: words keeps the backend's order, so the starts never decrease
\* whenever the backend's readable, non-blank spans never decrease in start;
\* synthesized words are always ordered.
C8_OrderedIfBackendOrdered ==
    (Success /\ (fallback_ran \/ BackendOrdered(segments_list))) =>
       Ordered(response.words)

C8_Witness ==
    /\ Success
    /\ ~fallback_ran
    /\ BackendOrdered(segments_list)
    /\ Len(response.words) >= 2
    /\ response.words[1].start < response.words[2].start

\* the segment's word sequence is absent, empty, or holds only blank spans
NoUsableWords(seg) ==
    \/ seg.wkind \in {"absent", "none"}
    \/ seg.wkind = "list" /\ \A j \in 1..Len(seg.words) : IsBlank(seg.words[j])

\* the loop handles segment number idx in this step
SegmentStep == pc = "loop" /\ idx <= Len(segments_list) /\ pc' = "loop"

\* the step adds no word and adds the trimmed segment text once (adding an
\* empty text or nothing is the same text)
TextOnly(seg) ==
    /\ words_data' = words_data
    /\ \/ full_text_parts' = Append(full_text_parts, Strip(seg.text))
       \/ Strip(seg.text) = EmptyStr /\ full_text_parts' = full_text_parts

\* C9: a segment whose word sequence is absent, empty or all blank adds no
\* entry to words, and its trimmed text is appended as one unit to the full
\* text parts.
C9_TextKept ==
    [][(SegmentStep /\ NoUsableWords(segments_list[idx])) =>
          TextOnly(segments_list[idx])]_vars

\* reading the segment's word sequence raises: it cannot be iterated, or a
\* span cannot be read
WordReadFails(seg) ==
    \/ seg.wkind = "noniter"
    \/ seg.wkind = "list" /\ \E j \in 1..Len(seg.words) : ~IsReadable(seg.words[j])

\* C10: a failure while reading one segment's words leaves the segment with
\* no entry in words and its trimmed text in the full text exactly once, and
\* the loop goes on to the next segment.
C10_RecoveredInPlace ==
    [][(SegmentStep /\ WordReadFails(segments_list[idx])) =>
          (TextOnly(segments_list[idx]) /\ idx' = idx + 1)]_vars

====
